---- MODULE Spec2Model ----
(***************************************************************************)
(* A model of concurra's TaskRunner / TaskExecutor (src/concurra/core.py). *)
(*                                                                         *)
(* Three kinds of process take steps:                                      *)
(*   - the caller (main thread), which calls the public API;               *)
(*   - the maintenance thread running TaskRunner._handle_tasks;            *)
(*   - one execution unit (thread or process) per started TaskExecutor.    *)
(* The dependency graph (depends_on) is not part of core.py; it is         *)
(* modelled from the specification in the second half of the module and    *)
(* used only by SpecDep.                                                   *)
(***************************************************************************)
EXTENDS Integers, Sequences, FiniteSets, TLC

\* ------------------------------------------------------------------ bounds
MaxTasks == 2
MaxConcurrency == 2
\* API calls the caller makes after the run has started
MaxCalls == 1
\* tasks registered with dependencies
MaxDepTasks == 3
\* registrations with explicit labels: the tasks and the largest label
MaxRegTasks == 3
MaxLabel == 2

\* --------------------------------------------------------------- constants
STATE_RUNNING == 0
STATE_CLOSING == 1
STATE_TERMINATED == 2
\* os.cpu_count() of the machine, the default of max_concurrency
CpuCount == 2
\* the timeout _terminate_tasks installs (0.1 s), in tenths of a second
TerminateTimeout == 1
\* a configured timeout (5 s), in tenths of a second
ConfiguredTimeout == 50

\* Python's None and an optional value
None == << >>
Some(x) == << x >>

VARIABLES
    max_concurrency_arg, \* the max_concurrency argument of TaskRunner(...)
    max_concurrency,   \* TaskRunner.max_concurrency
    timeout,           \* TaskRunner.timeout: None or Some(t)
    fast_fail,         \* TaskRunner.fast_fail
    use_multiprocessing,
    units,             \* every TaskExecutor created, in registration order
    ustate,            \* per unit: "created", "launching" (start() before
                       \* executor.start()), "running", "recorded", "stopped"
    tasks,             \* TaskRunner.tasks: pending units (indices into units)
    started_tasks,     \* TaskRunner.started_tasks
    results_registry,  \* label -> record ({} is the empty function)
    has_started,       \* TaskRunner._has_started
    total_tasks,       \* TaskRunner._total_tasks
    executed_tasks,    \* TaskRunner._executed_tasks
    task_handler,      \* TaskRunner._task_handler is not None
    thread_state,      \* _task_handler._state of the maintenance thread
    hpc,               \* position of the maintenance thread
    mpc,               \* position of the caller inside an API call
    call,              \* the API call in progress or last made
    term_q,            \* per thread: units _terminate_tasks still has to visit
    term_w,            \* per thread: is_results_updated was false, write pending
    joined,            \* how the join of get_background_results ended
    output,            \* what the last API call returned: None or Some(dict)
    raised,            \* what the last API call raised ("none" if nothing)
    calls,             \* API calls made after the run has started
    forced_by,         \* first forced termination: fast_fail, timeout, abort
    forced_unfinished, \* labels with an empty record at that moment
    first_snapshot,    \* the first snapshot a results call returned
    closing_starts,    \* _handle_tasks started a unit in state CLOSING
    depends_on,        \* dependency graph: label -> the labels it depends on
    succeeded_tasks,   \* labels reaped with a record that has not failed
    failed_tasks,      \* labels reaped with a record that has failed
    terminated_tasks   \* labels skipped or force-terminated

vars == << max_concurrency_arg, max_concurrency, timeout, fast_fail, use_multiprocessing, units,
           ustate, tasks, started_tasks, results_registry, has_started,
           total_tasks, executed_tasks, task_handler, thread_state, hpc, mpc,
           call, term_q, term_w, joined, output, raised, calls, forced_by,
           forced_unfinished, first_snapshot, closing_starts, depends_on,
           succeeded_tasks, failed_tasks, terminated_tasks >>

config_vars == << max_concurrency_arg, max_concurrency, fast_fail,
                 use_multiprocessing >>
history_vars == << first_snapshot, closing_starts >>
ghost_vars == << forced_by, forced_unfinished, first_snapshot, closing_starts >>
dep_vars == << depends_on, succeeded_tasks, failed_tasks, terminated_tasks >>

\* ------------------------------------------------------------- work items
\* What invoking the caller's callable does: return a value, raise an
\* Exception, or raise a BaseException that is no Exception (SystemExit).
WorkItems ==
    { [outcome |-> "return", value |-> 4, kind |-> "", text |-> ""],
      [outcome |-> "raise", value |-> 0, kind |-> "ValueError",
       text |-> "Intentional failure"],
      [outcome |-> "exit", value |-> 0, kind |-> "SystemExit", text |-> ""] }

\* f"{type(e).__name__}: {str(e)}"
FormatError(kind, text) == << kind, ": ", text >>

\* ------------------------------------------------------------ TaskExecutor
EmptyRecord == [k \in {} |-> None]

record_results(result, failed, err_message, trace_log, status) ==
    [ result |-> result,
      error |-> err_message,
      trace |-> trace_log,
      status |-> IF status = None
                 THEN Some(IF failed THEN "Failed" ELSE "Successful")
                 ELSE status,
      has_failed |-> failed ]

\* TaskExecutor.run: try / except Exception / finally
TaskExecutor_run(work) ==
    IF work.outcome = "return"
    THEN record_results(Some(work.value), FALSE, None, None, None)
    ELSE IF work.outcome = "raise"
    THEN record_results(None, TRUE, Some(FormatError(work.kind, work.text)),
                        Some("traceback"), None)
    ELSE record_results(None, FALSE, None, None, None)

update_results_on_termination_not_failed ==
    record_results(None, FALSE, Some(FormatError("TimeoutError", "")), None,
                   Some("Terminated"))

\* update_results_on_termination(error=None): error defaults to TimeoutError()
update_results_on_termination ==
    record_results(None, TRUE, Some(FormatError("TimeoutError", "")), None,
                   Some("Terminated"))

is_running(i) == ustate[i] \in {"running", "recorded"}

exitcode(i) == IF ustate[i] # "created" /\ ~is_running(i) THEN Some(0) ELSE None

is_results_updated(reg, i) == DOMAIN reg[units[i].label] # {}

has_failed(i) ==
    LET r == results_registry[units[i].label]
    IN  IF "has_failed" \in DOMAIN r THEN r.has_failed ELSE FALSE

\* TaskExecutor.terminate: only a process can be killed
terminate(us, i) ==
    IF us[i] # "created" /\ use_multiprocessing
    THEN [us EXCEPT ![i] = "stopped"]
    ELSE us

\* TaskExecutor.start, lines 90-91: what it raises
start_error(i) == IF is_running(i) THEN "RuntimeError" ELSE "none"

\* TaskExecutor.start on every unit of the sequence s
start(us, s) ==
    [i \in DOMAIN us |->
        IF \E k \in DOMAIN s : s[k] = i THEN "running" ELSE us[i]]

\* -------------------------------------------------------------- TaskRunner
\* max_concurrency = max_concurrency or os.cpu_count(); below 1 becomes 1
InitMaxConcurrency(arg) ==
    LET mc == IF arg = None \/ arg = Some(0) THEN CpuCount ELSE arg[1]
    IN  IF mc < 1 THEN 1 ELSE mc

\* the values of the max_concurrency argument: omitted (None) or an integer
ConstructorArgs == {None} \cup {Some(n) : n \in -1 .. MaxConcurrency}

\* the arguments that name a cap
ExplicitCaps == {Some(n) : n \in 1 .. MaxConcurrency}

\* TaskRunner(max_concurrency=arg, timeout=..., fast_fail=...,
\* use_multiprocessing=...) for an argument of the set args
TaskRunner_init(args) ==
    /\ max_concurrency_arg \in args
    /\ max_concurrency = InitMaxConcurrency(max_concurrency_arg)
    /\ timeout \in {None, Some(ConfiguredTimeout)}
    /\ fast_fail \in BOOLEAN
    /\ use_multiprocessing \in BOOLEAN
    /\ units = << >>
    /\ ustate = << >>
    /\ tasks = << >>
    /\ started_tasks = << >>
    /\ results_registry = EmptyRecord
    /\ has_started = FALSE
    /\ total_tasks = 0
    /\ executed_tasks = 0
    /\ task_handler = FALSE
    /\ thread_state = STATE_RUNNING
    /\ hpc = "none"
    /\ mpc = "idle"
    /\ call = "none"
    /\ term_q = [t \in {"main", "handler"} |-> << >>]
    /\ term_w = [t \in {"main", "handler"} |-> FALSE]
    /\ joined = "none"
    /\ output = None
    /\ raised = "none"
    /\ calls = 0
    /\ forced_by = "none"
    /\ forced_unfinished = {}
    /\ first_snapshot = None
    /\ closing_starts = FALSE
    /\ depends_on = EmptyRecord
    /\ succeeded_tasks = {}
    /\ failed_tasks = {}
    /\ terminated_tasks = {}

\* the runs of Spec are configured with an explicit cap
Init == TaskRunner_init(ExplicitCaps)

Labels == {units[i].label : i \in DOMAIN units}

\* the labels whose record is still {}
Unfinished == {l \in DOMAIN results_registry : DOMAIN results_registry[l] = {}}

\* the caller makes an API call: at most MaxCalls of them after the start
count_call ==
    /\ has_started => calls < MaxCalls
    /\ calls' = IF has_started THEN calls + 1 ELSE calls

\* the label argument of add_task: omitted (None) or an explicit label
LabelArgs == {None} \cup {Some(n) : n \in 0 .. MaxLabel}

\* add_task(task, label=label_arg)
add_task(callable, label_arg, work) ==
    /\ mpc = "idle"
    /\ count_call
    /\ call' = "add_task"
    /\ output' = None
    /\ IF has_started
       THEN /\ raised' = "RuntimeError"
            /\ UNCHANGED << units, ustate, tasks, results_registry, total_tasks >>
       ELSE IF ~callable
       THEN /\ raised' = "TypeError"
            /\ UNCHANGED << units, ustate, tasks, results_registry, total_tasks >>
       ELSE LET task_id == Len(tasks)
                label == IF label_arg = None \/ label_arg = Some(0)
                         THEN task_id ELSE label_arg[1]
            IN  IF \E k \in DOMAIN tasks : units[tasks[k]].label = label
                THEN /\ raised' = "ValueError"
                     /\ UNCHANGED << units, ustate, tasks, results_registry,
                                     total_tasks >>
                ELSE /\ raised' = "none"
                     /\ units' = Append(units, [label |-> label, task_id |-> task_id,
                                                work |-> work])
                     /\ ustate' = Append(ustate, "created")
                     /\ results_registry' = (label :> EmptyRecord) @@ results_registry
                     /\ tasks' = Append(tasks, Len(units) + 1)
                     /\ total_tasks' = total_tasks + 1
    /\ UNCHANGED << config_vars, dep_vars, timeout, started_tasks, has_started,
                    executed_tasks, task_handler, thread_state, hpc, mpc,
                    term_q, term_w, joined, ghost_vars >>

AddTask ==
    /\ Len(units) < MaxTasks
    /\ \E callable \in BOOLEAN, label_arg \in {None},
          work \in WorkItems :
          add_task(callable, label_arg, work)

start_new_tasks_uncapped == Len(tasks)

start_new_tasks_not_closing ==
    IF thread_state = STATE_CLOSING THEN 0
    ELSE IF max_concurrency - Len(started_tasks) < Len(tasks)
    THEN max_concurrency - Len(started_tasks) ELSE Len(tasks)

\* _start_new_tasks: the units it pops from tasks and starts
start_new_tasks_count ==
    LET room == max_concurrency - Len(started_tasks)
    IN  IF room < 0 THEN 0 ELSE IF room < Len(tasks) THEN room ELSE Len(tasks)

start_new_tasks_lifo ==
    LET n == start_new_tasks_count
        popped == SubSeq(tasks, Len(tasks) - n + 1, Len(tasks))
    IN  /\ tasks' = SubSeq(tasks, 1, Len(tasks) - n)
        /\ started_tasks' = started_tasks \o popped
        /\ ustate' = start(ustate, popped)

start_new_tasks_keeps_pending ==
    LET n == start_new_tasks_count
        popped == SubSeq(tasks, 1, n)
    IN  /\ tasks' = tasks
        /\ started_tasks' = started_tasks \o popped
        /\ ustate' = start(ustate, popped)

start_new_tasks ==
    LET n == start_new_tasks_count
        popped == SubSeq(tasks, 1, n)
    IN  /\ tasks' = SubSeq(tasks, n + 1, Len(tasks))
        /\ started_tasks' = started_tasks \o popped
        /\ ustate' = start(ustate, popped)

execute_in_background_again ==
    /\ raised' = "none"
    /\ has_started' = TRUE
    /\ start_new_tasks
    /\ task_handler' = TRUE
    /\ thread_state' = STATE_RUNNING
    /\ hpc' = "loop"

\* execute_in_background, lines 307-316
execute_in_background ==
    IF has_started
    THEN /\ raised' = "RuntimeError"
         /\ UNCHANGED << tasks, started_tasks, ustate, has_started, task_handler,
                         thread_state, hpc >>
    ELSE /\ raised' = "none"
         /\ has_started' = TRUE
         /\ start_new_tasks
         /\ task_handler' = TRUE
         /\ thread_state' = STATE_RUNNING
         /\ hpc' = "loop"

ExecuteInBackground ==
    /\ mpc = "idle"
    /\ count_call
    /\ call' = "execute_in_background"
    /\ output' = None
    /\ execute_in_background
    /\ UNCHANGED << config_vars, dep_vars, timeout, units, results_registry, total_tasks,
                    executed_tasks, mpc, term_q, term_w, joined, ghost_vars >>

\* run(): execute_in_background() and then get_background_results()
Run ==
    /\ mpc = "idle"
    /\ count_call
    /\ call' = "run"
    /\ output' = None
    /\ execute_in_background
    /\ mpc' = IF has_started THEN "idle" ELSE "run"
    /\ joined' = "none"
    /\ UNCHANGED << config_vars, dep_vars, timeout, units, results_registry, total_tasks,
                    executed_tasks, term_q, term_w, ghost_vars >>

\* get_background_results, line 330
set_closing ==
    IF task_handler
    THEN /\ thread_state' = STATE_CLOSING
         /\ mpc' = "join"
         /\ raised' = "none"
    ELSE /\ raised' = "AttributeError"
         /\ mpc' = "idle"
         /\ UNCHANGED thread_state

GetBackgroundResults ==
    /\ mpc = "idle"
    /\ count_call
    /\ call' = "get_background_results"
    /\ output' = None
    /\ joined' = "none"
    /\ set_closing
    /\ UNCHANGED << config_vars, dep_vars, timeout, units, ustate, tasks, started_tasks,
                    results_registry, has_started, total_tasks, executed_tasks,
                    task_handler, hpc, term_q, term_w, ghost_vars >>

RunGetResults ==
    /\ mpc = "run"
    /\ set_closing
    /\ UNCHANGED << config_vars, dep_vars, calls, timeout, units, ustate, tasks, started_tasks,
                    results_registry, has_started, total_tasks, executed_tasks,
                    task_handler, hpc, call, term_q, term_w, joined, output,
                    ghost_vars >>

\* self._task_handler.join(timeout=self.timeout), line 331
JoinFinished ==
    /\ mpc = "join"
    /\ hpc = "done"
    /\ mpc' = "term_begin"
    /\ joined' = "finished"
    /\ UNCHANGED << config_vars, dep_vars, calls, timeout, units, ustate, tasks, started_tasks,
                    results_registry, has_started, total_tasks, executed_tasks,
                    task_handler, thread_state, hpc, call, term_q, term_w,
                    output, raised, ghost_vars >>

JoinTimeout ==
    /\ mpc = "join"
    /\ hpc # "done"
    /\ timeout # None
    /\ mpc' = "term_begin"
    /\ joined' = "timeout"
    /\ forced_by' = IF forced_by = "none" THEN "timeout" ELSE forced_by
    /\ forced_unfinished' = IF forced_by = "none" THEN Unfinished
                            ELSE forced_unfinished
    /\ UNCHANGED << config_vars, dep_vars, calls, timeout, units, ustate, tasks, started_tasks,
                    results_registry, has_started, total_tasks, executed_tasks,
                    task_handler, thread_state, hpc, call, term_q, term_w,
                    output, raised, history_vars >>

\* abort(), up to the call of _terminate_tasks
Abort ==
    /\ mpc = "idle"
    /\ count_call
    /\ call' = "abort"
    /\ output' = None
    /\ raised' = "none"
    /\ mpc' = "term_begin"
    /\ forced_by' = IF forced_by = "none" THEN "abort" ELSE forced_by
    /\ forced_unfinished' = IF forced_by = "none" THEN Unfinished
                            ELSE forced_unfinished
    /\ UNCHANGED << config_vars, dep_vars, timeout, units, ustate, tasks, started_tasks,
                    results_registry, has_started, total_tasks, executed_tasks,
                    task_handler, thread_state, hpc, term_q, term_w, joined,
                    history_vars >>

\* ------------------------------------------------------- _terminate_tasks
\* lines 499-505: the early return, the two assignments and the copy of
\* self.started_tasks + self.tasks
terminate_tasks_begin(t) ==
    IF started_tasks = << >>
    THEN UNCHANGED << timeout, thread_state, term_q >>
    ELSE /\ timeout' = Some(TerminateTimeout)
         /\ IF task_handler
            THEN /\ thread_state' = STATE_TERMINATED
                 /\ term_q' = [term_q EXCEPT ![t] = started_tasks \o tasks]
            ELSE UNCHANGED << thread_state, term_q >>

\* lines 505-509 for the next task: exitcode, terminate, is_results_updated
\* in one step and update_results_on_termination in a second one
terminate_tasks_step(t) ==
    LET i == Head(term_q[t])
        label == units[i].label
    IN  IF ~term_w[t]
        THEN /\ ustate' = IF exitcode(i) = None THEN terminate(ustate, i) ELSE ustate
             /\ IF is_results_updated(results_registry, i)
                THEN /\ term_q' = [term_q EXCEPT ![t] = Tail(@)]
                     /\ UNCHANGED term_w
                ELSE /\ term_w' = [term_w EXCEPT ![t] = TRUE]
                     /\ UNCHANGED term_q
             /\ UNCHANGED results_registry
        ELSE /\ results_registry' =
                    [results_registry EXCEPT ![label] = update_results_on_termination]
             /\ term_q' = [term_q EXCEPT ![t] = Tail(@)]
             /\ term_w' = [term_w EXCEPT ![t] = FALSE]
             /\ UNCHANGED ustate

\* the caller enters _terminate_tasks (from get_background_results or abort)
MainTerminateBegin ==
    /\ mpc = "term_begin"
    /\ terminate_tasks_begin("main")
    /\ IF started_tasks # << >> /\ ~task_handler
       THEN /\ raised' = "AttributeError"
            /\ mpc' = "idle"
       ELSE /\ mpc' = "term"
            /\ UNCHANGED raised
    /\ UNCHANGED << config_vars, dep_vars, calls, units, ustate, tasks, started_tasks,
                    results_registry, has_started, total_tasks, executed_tasks,
                    task_handler, hpc, call, term_w, joined, output, ghost_vars >>

MainTerminateStep ==
    /\ mpc = "term"
    /\ term_q["main"] # << >>
    /\ terminate_tasks_step("main")
    /\ UNCHANGED << config_vars, dep_vars, calls, timeout, units, tasks, started_tasks,
                    has_started, total_tasks, executed_tasks, task_handler,
                    thread_state, hpc, mpc, call, joined, output, raised,
                    ghost_vars >>

\* verify(raise_exception): what it raises ("none" if it returns)
verify(reg, raise_exception) ==
    IF task_handler /\ thread_state = STATE_RUNNING
    THEN "Exception"
    ELSE IF \E l \in DOMAIN reg : DOMAIN reg[l] = {}
    THEN "KeyError"
    ELSE IF raise_exception /\ \E l \in DOMAIN reg : reg[l].has_failed
    THEN "Exception"
    ELSE "none"

\* get_background_results, lines 334-337
GetResultsReturn ==
    /\ mpc = "term"
    /\ term_q["main"] = << >>
    /\ call \in {"get_background_results", "run"}
    /\ \E check \in BOOLEAN, raise_exception \in BOOLEAN :
          LET r == IF check THEN verify(results_registry, raise_exception)
                   ELSE "none"
          IN  /\ raised' = r
              /\ output' = IF r = "none" THEN Some(results_registry) ELSE None
              /\ first_snapshot' = IF first_snapshot = None THEN output'
                                   ELSE first_snapshot
    /\ mpc' = "idle"
    /\ UNCHANGED << config_vars, dep_vars, calls, timeout, units, ustate, tasks, started_tasks,
                    results_registry, has_started, total_tasks, executed_tasks,
                    task_handler, thread_state, hpc, call, term_q, term_w,
                    joined, forced_by, forced_unfinished, closing_starts >>

\* abort, lines 389-391
AbortReturn ==
    /\ mpc = "term"
    /\ term_q["main"] = << >>
    /\ call = "abort"
    /\ task_handler' = FALSE
    /\ LET r == IF \E l \in DOMAIN results_registry :
                      DOMAIN results_registry[l] = {}
                THEN "KeyError" ELSE "none"
       IN  /\ raised' = r
           /\ output' = IF r = "none" THEN Some(results_registry) ELSE None
    /\ mpc' = "idle"
    /\ UNCHANGED << config_vars, dep_vars, calls, timeout, units, ustate, tasks, started_tasks,
                    results_registry, has_started, total_tasks, executed_tasks,
                    thread_state, hpc, call, term_q, term_w, joined, ghost_vars >>

\* ------------------------------------------------------- execution units
\* the unit's thread or process runs TaskExecutor.run and writes its record
UnitRecord(i) ==
    /\ ustate[i] = "running"
    /\ ustate' = [ustate EXCEPT ![i] = "recorded"]
    /\ results_registry' =
           [results_registry EXCEPT ![units[i].label] = TaskExecutor_run(units[i].work)]
    /\ UNCHANGED << config_vars, dep_vars, calls, timeout, units, tasks, started_tasks,
                    has_started, total_tasks, executed_tasks, task_handler,
                    thread_state, hpc, mpc, call, term_q, term_w, joined,
                    output, raised, ghost_vars >>

\* the unit's thread or process ends
UnitExit(i) ==
    /\ ustate[i] = "recorded"
    /\ ustate' = [ustate EXCEPT ![i] = "stopped"]
    /\ UNCHANGED << config_vars, dep_vars, calls, timeout, units, tasks, started_tasks,
                    results_registry, has_started, total_tasks, executed_tasks,
                    task_handler, thread_state, hpc, mpc, call, term_q, term_w,
                    joined, output, raised, ghost_vars >>

UnitRecords == \E i \in DOMAIN units : UnitRecord(i)
UnitExits == \E i \in DOMAIN units : UnitExit(i)

\* ------------------------------------------------------ maintenance thread
RemoveAt(s, idx) == SubSeq(s, 1, idx - 1) \o SubSeq(s, idx + 1, Len(s))

\* _cleanup_finished_tasks from index idx downwards: the started tasks left,
\* the number reaped, whether a failed task ended the pass, the return value
RECURSIVE cleanup_finished_tasks(_, _, _)
cleanup_finished_tasks_keeps_failed(st, idx, n) ==
    IF idx = 0
    THEN [started |-> st, reaped |-> n, failed |-> FALSE, result |-> n > 0]
    ELSE IF exitcode(st[idx]) # None
    THEN IF has_failed(st[idx])
         THEN [started |-> st, reaped |-> n, failed |-> TRUE, result |-> FALSE]
         ELSE cleanup_finished_tasks(RemoveAt(st, idx), idx - 1, n + 1)
    ELSE cleanup_finished_tasks(st, idx - 1, n)

cleanup_finished_tasks(st, idx, n) ==
    IF idx = 0
    THEN [started |-> st, reaped |-> n, failed |-> FALSE, result |-> n > 0]
    ELSE IF exitcode(st[idx]) # None
    THEN IF has_failed(st[idx])
         THEN [started |-> RemoveAt(st, idx), reaped |-> n + 1, failed |-> TRUE,
               result |-> FALSE]
         ELSE cleanup_finished_tasks(RemoveAt(st, idx), idx - 1, n + 1)
    ELSE cleanup_finished_tasks(st, idx - 1, n)

handle_tasks_no_drain == thread_state = STATE_RUNNING

\* the while condition of _handle_tasks
handle_tasks_continue ==
    \/ thread_state = STATE_RUNNING
    \/ (started_tasks # << >> /\ thread_state # STATE_TERMINATED)

\* one evaluation of the while condition and, if it holds, _cleanup_finished_tasks
HandleIteration ==
    /\ hpc = "loop"
    /\ IF handle_tasks_continue
       THEN LET r == cleanup_finished_tasks(started_tasks, Len(started_tasks), 0)
            IN  /\ started_tasks' = r.started
                /\ executed_tasks' = executed_tasks + r.reaped
                /\ hpc' = IF r.failed /\ fast_fail THEN "term_begin"
                          ELSE IF r.result THEN "start" ELSE "loop"
                /\ IF r.failed /\ fast_fail /\ forced_by = "none"
                   THEN /\ forced_by' = "fast_fail"
                        /\ forced_unfinished' = Unfinished
                   ELSE UNCHANGED << forced_by, forced_unfinished >>
       ELSE /\ hpc' = IF thread_state = STATE_TERMINATED /\ started_tasks # << >>
                      THEN "post" ELSE "done"
            /\ UNCHANGED << started_tasks, executed_tasks, forced_by,
                            forced_unfinished >>
    /\ UNCHANGED << config_vars, dep_vars, calls, timeout, units, ustate, tasks, results_registry,
                    has_started, total_tasks, task_handler, thread_state, mpc,
                    call, term_q, term_w, joined, output, raised, history_vars >>

\* _start_new_tasks called from _handle_tasks, then the sleep
HandleStart ==
    /\ hpc = "start"
    /\ start_new_tasks
    /\ hpc' = "loop"
    /\ closing_starts' = (closing_starts \/ (thread_state = STATE_CLOSING
                                               /\ start_new_tasks_count > 0))
    /\ UNCHANGED << config_vars, dep_vars, calls, timeout, units, results_registry, has_started,
                    total_tasks, executed_tasks, task_handler, thread_state, mpc,
                    call, term_q, term_w, joined, output, raised, forced_by,
                    forced_unfinished, first_snapshot >>

\* fast fail: _cleanup_finished_tasks calls _terminate_tasks (line 452)
HandleTerminateBegin ==
    /\ hpc = "term_begin"
    /\ terminate_tasks_begin("handler")
    /\ hpc' = IF started_tasks # << >> /\ ~task_handler THEN "done" ELSE "term"
    /\ UNCHANGED << config_vars, dep_vars, calls, units, ustate, tasks, started_tasks,
                    results_registry, has_started, total_tasks, executed_tasks,
                    task_handler, mpc, call, term_w, joined, output, raised,
                    ghost_vars >>

HandleTerminateStep ==
    /\ hpc = "term"
    /\ IF term_q["handler"] # << >>
       THEN /\ terminate_tasks_step("handler")
            /\ UNCHANGED hpc
       ELSE /\ hpc' = "loop"
            /\ UNCHANGED << ustate, results_registry, term_q, term_w >>
    /\ UNCHANGED << config_vars, dep_vars, calls, timeout, units, tasks, started_tasks,
                    has_started, total_tasks, executed_tasks, task_handler,
                    thread_state, mpc, call, joined, output, raised, ghost_vars >>

\* lines 484-490 for the last started task
HandlePost ==
    /\ hpc = "post"
    /\ IF started_tasks = << >>
       THEN /\ hpc' = "done"
            /\ UNCHANGED << started_tasks, results_registry >>
       ELSE LET i == started_tasks[Len(started_tasks)]
            IN  /\ results_registry' =
                       IF is_results_updated(results_registry, i)
                       THEN results_registry
                       ELSE [results_registry EXCEPT
                                ![units[i].label] = update_results_on_termination]
                /\ started_tasks' = SubSeq(started_tasks, 1, Len(started_tasks) - 1)
                /\ UNCHANGED hpc
    /\ UNCHANGED << config_vars, dep_vars, calls, timeout, units, ustate, tasks, has_started,
                    total_tasks, executed_tasks, task_handler, thread_state, mpc,
                    call, term_q, term_w, joined, output, raised, ghost_vars >>

Next ==
    \/ AddTask
    \/ ExecuteInBackground
    \/ Run
    \/ GetBackgroundResults
    \/ RunGetResults
    \/ JoinFinished
    \/ JoinTimeout
    \/ Abort
    \/ MainTerminateBegin
    \/ MainTerminateStep
    \/ GetResultsReturn
    \/ AbortReturn
    \/ UnitRecords
    \/ UnitExits
    \/ HandleIteration
    \/ HandleStart
    \/ HandleTerminateBegin
    \/ HandleTerminateStep
    \/ HandlePost

Spec == Init /\ [][Next]_vars

\* The caller only registers tasks and calls run(). The maintenance thread,
\* the units and the caller inside run() are each scheduled fairly; a join
\* with a timeout need not time out.
NextRun ==
    \/ AddTask
    \/ Run
    \/ RunGetResults
    \/ JoinFinished
    \/ JoinTimeout
    \/ MainTerminateBegin
    \/ MainTerminateStep
    \/ GetResultsReturn
    \/ UnitRecords
    \/ UnitExits
    \/ HandleIteration
    \/ HandleStart
    \/ HandleTerminateBegin
    \/ HandleTerminateStep
    \/ HandlePost

SpecRun ==
    /\ Init
    /\ [][NextRun]_vars
    /\ WF_vars(RunGetResults \/ JoinFinished \/ MainTerminateBegin
                  \/ MainTerminateStep \/ GetResultsReturn)
    /\ WF_vars(HandleIteration \/ HandleStart \/ HandleTerminateBegin
                  \/ HandleTerminateStep \/ HandlePost)
    /\ \A i \in 1 .. MaxTasks :
          WF_vars(i \in DOMAIN units /\ (UnitRecord(i) \/ UnitExit(i)))

\* verify(raise_exception) called by the caller
Verify(raise_exception) ==
    /\ mpc = "idle"
    /\ count_call
    /\ call' = "verify"
    /\ output' = None
    /\ raised' = verify(results_registry, raise_exception)
    /\ UNCHANGED << config_vars, dep_vars, timeout, units, ustate, tasks,
                    started_tasks, results_registry, has_started, total_tasks,
                    executed_tasks, task_handler, thread_state, hpc, mpc,
                    term_q, term_w, joined, ghost_vars >>

VerifyCall == \E raise_exception \in BOOLEAN : Verify(raise_exception)

NextVerify ==
    \/ Next
    \/ VerifyCall

SpecVerify == Init /\ [][NextVerify]_vars

\* Registration with explicit and omitted labels, then the start.
RegAddTask ==
    /\ Len(units) < MaxRegTasks
    /\ \E callable \in BOOLEAN, label_arg \in LabelArgs, work \in WorkItems :
          add_task(callable, label_arg, work)

NextReg ==
    \/ RegAddTask
    \/ ExecuteInBackground

SpecReg == Init /\ [][NextReg]_vars

\* Construction with any max_concurrency argument, then registration and the
\* start.
InitAnyCap == TaskRunner_init(ConstructorArgs)

SpecAnyCap == InitAnyCap /\ [][NextReg]_vars

\* The caller registers tasks and starts the run in the background; it asks
\* for no results and does not abort. The maintenance thread and the units
\* are scheduled fairly.
NextBg ==
    \/ AddTask
    \/ ExecuteInBackground
    \/ UnitRecords
    \/ UnitExits
    \/ HandleIteration
    \/ HandleStart
    \/ HandleTerminateBegin
    \/ HandleTerminateStep
    \/ HandlePost

SpecBg ==
    /\ Init
    /\ [][NextBg]_vars
    /\ WF_vars(HandleIteration \/ HandleStart \/ HandleTerminateBegin
                  \/ HandleTerminateStep \/ HandlePost)
    /\ \A i \in 1 .. MaxTasks :
          WF_vars(i \in DOMAIN units /\ (UnitRecord(i) \/ UnitExit(i)))

\* _start_new_tasks of the maintenance thread, one task at a time and with
\* TaskExecutor.start in two steps, for the states another thread can see.
\* Lines 463-465 and 90-100: the task is popped and start() has set
\* _has_started, the executor exists and is not started ("launching").
HandleStartPop ==
    /\ hpc = "start"
    /\ IF start_new_tasks_count > 0
       THEN /\ tasks' = Tail(tasks)
            /\ ustate' = [ustate EXCEPT ![Head(tasks)] = "launching"]
            /\ hpc' = "launch"
       ELSE /\ hpc' = "loop"
            /\ UNCHANGED << tasks, ustate >>
    /\ UNCHANGED << config_vars, dep_vars, calls, timeout, units, started_tasks,
                    results_registry, has_started, total_tasks, executed_tasks,
                    task_handler, thread_state, mpc, call, term_q, term_w,
                    joined, output, raised, ghost_vars >>

\* lines 101 and 467: executor.start() and the append to started_tasks
HandleStartLaunch ==
    /\ hpc = "launch"
    /\ \E i \in DOMAIN units :
          /\ ustate[i] = "launching"
          /\ ustate' = [ustate EXCEPT ![i] = "running"]
          /\ started_tasks' = Append(started_tasks, i)
    /\ hpc' = "start"
    /\ closing_starts' = (closing_starts \/ thread_state = STATE_CLOSING)
    /\ UNCHANGED << config_vars, dep_vars, calls, timeout, units, tasks,
                    results_registry, has_started, total_tasks, executed_tasks,
                    task_handler, thread_state, mpc, call, term_q, term_w,
                    joined, output, raised, forced_by, forced_unfinished,
                    first_snapshot >>

\* The caller registers tasks, starts the run in the background and aborts
\* it, while the maintenance thread starts its tasks step by step.
NextLaunch ==
    \/ AddTask
    \/ ExecuteInBackground
    \/ Abort
    \/ MainTerminateBegin
    \/ MainTerminateStep
    \/ AbortReturn
    \/ UnitRecords
    \/ UnitExits
    \/ HandleIteration
    \/ HandleStartPop
    \/ HandleStartLaunch
    \/ HandleTerminateBegin
    \/ HandleTerminateStep
    \/ HandlePost

SpecLaunch == Init /\ [][NextLaunch]_vars

\* ------------------------------------------------- dependency scheduling
\* core.py has no depends_on; this part follows the specification's
\* Dependency Graph and maintenance loop (Reap, Classify, Admit). It shares
\* the TaskExecutor and the execution units with the model above.
core_only_vars == << task_handler, term_q, term_w, calls, forced_by,
                     forced_unfinished, first_snapshot, closing_starts >>

DepWorkItems == {w \in WorkItems : w.outcome \in {"return", "raise"}}
DependsArgs == SUBSET (0 .. MaxDepTasks - 1)

UnitOf(l) == CHOOSE i \in DOMAIN units : units[i].label = l
LabelsOf(s) == {units[s[k]].label : k \in DOMAIN s}

\* the labels reachable from the labels S along depends-on edges
RECURSIVE reachable(_, _)
reachable(graph, S) ==
    LET next == S \cup UNION {graph[l] : l \in S \cap DOMAIN graph}
    IN  IF next = S THEN S ELSE reachable(graph, next)

graph_add_unchecked(graph, label, deps) == "none"

\* Dependency Graph add(label, depends_on): the error it fails with
graph_add(graph, label, deps) ==
    IF label \in deps THEN "SelfDependencyError"
    ELSE IF \E d \in deps : d \notin DOMAIN graph THEN "UnknownDependencyError"
    ELSE IF label \in reachable(graph, deps) THEN "CycleError"
    ELSE "none"

is_ready_always(label) == TRUE

\* is_ready: every dependency of the label is in succeeded
is_ready(label) == depends_on[label] \subseteq succeeded_tasks

\* a dependency of the label is in failed or terminated
is_skippable(label) ==
    depends_on[label] \cap (failed_tasks \cup terminated_tasks) # {}

force_finalize_nothing(reg, labels) == reg

\* force_finalize on every label of the set: write Terminated where no
\* record exists yet
force_finalize(reg, labels) ==
    [l \in DOMAIN reg |->
        IF l \in labels /\ DOMAIN reg[l] = {}
        THEN update_results_on_termination ELSE reg[l]]

\* add_task(work_item, label, depends_on)
dep_add_task(callable, label_arg, deps, work) ==
    LET task_id == Len(units)
        label == IF label_arg = None THEN task_id ELSE label_arg[1]
        err == IF has_started THEN "AlreadyStartedError"
               ELSE IF ~callable THEN "NotCallableError"
               ELSE IF label \in Labels THEN "DuplicateLabelError"
               ELSE graph_add(depends_on, label, deps)
    IN  /\ raised' = err
        /\ IF err # "none"
           THEN UNCHANGED << units, ustate, tasks, results_registry,
                             total_tasks, depends_on >>
           ELSE /\ units' = Append(units, [label |-> label, task_id |-> task_id,
                                           work |-> work])
                /\ ustate' = Append(ustate, "created")
                /\ results_registry' = (label :> EmptyRecord) @@ results_registry
                /\ tasks' = Append(tasks, Len(units) + 1)
                /\ total_tasks' = total_tasks + 1
                /\ depends_on' = (label :> deps) @@ depends_on

DepAddTask ==
    /\ mpc = "idle"
    /\ Len(units) < MaxDepTasks
    /\ call' = "add_task"
    /\ output' = None
    /\ \E callable \in BOOLEAN, deps \in DependsArgs, work \in DepWorkItems :
          dep_add_task(callable, None, deps, work)
    /\ UNCHANGED << config_vars, timeout, started_tasks, has_started,
                    executed_tasks, thread_state, hpc, mpc, joined,
                    succeeded_tasks, failed_tasks, terminated_tasks,
                    core_only_vars >>

\* Admit: while in_flight.size < max_concurrency, the earliest-registered
\* pending label that is ready moves to in_flight
RECURSIVE admit(_, _)
admit(pending, in_flight) ==
    LET ready == {k \in DOMAIN pending : is_ready(units[pending[k]].label)}
    IN  IF Len(in_flight) >= max_concurrency \/ ready = {}
        THEN [pending |-> pending, in_flight |-> in_flight]
        ELSE LET k == CHOOSE r \in ready : \A q \in ready : r <= q
             IN  admit(RemoveAt(pending, k), Append(in_flight, pending[k]))

dep_admit ==
    LET r == admit(tasks, started_tasks)
    IN  /\ tasks' = r.pending
        /\ started_tasks' = r.in_flight
        /\ ustate' = start(ustate, SubSeq(r.in_flight, Len(started_tasks) + 1,
                                          Len(r.in_flight)))

\* forced Terminated: every pending or in-flight label of (pend, infl) that is
\* not finished is finalized as Terminated, in-flight units are terminated
dep_force(pend, infl, succ, fail) ==
    LET all == LabelsOf(pend) \cup LabelsOf(infl)
        unfinished == {l \in all : DOMAIN results_registry[l] = {}}
        finished == all \ unfinished
    IN  /\ results_registry' = force_finalize(results_registry, unfinished)
        /\ ustate' = [i \in DOMAIN ustate |->
                         IF (\E k \in DOMAIN infl : infl[k] = i) /\ exitcode(i) = None
                         THEN terminate(ustate, i)[i] ELSE ustate[i]]
        /\ tasks' = << >>
        /\ started_tasks' = << >>
        /\ terminated_tasks' = terminated_tasks \cup unfinished
        /\ failed_tasks' = fail \cup {l \in finished : has_failed(UnitOf(l))}
        /\ succeeded_tasks' = succ \cup {l \in finished : ~has_failed(UnitOf(l))}
        /\ thread_state' = STATE_TERMINATED

\* execute_in_background: Running, an initial admission pass, the loop
dep_execute ==
    IF has_started
    THEN /\ raised' = "AlreadyStartedError"
         /\ UNCHANGED << tasks, started_tasks, ustate, has_started,
                         thread_state, hpc >>
    ELSE /\ raised' = "none"
         /\ has_started' = TRUE
         /\ dep_admit
         /\ thread_state' = STATE_RUNNING
         /\ hpc' = "reap"

DepExecuteInBackground ==
    /\ mpc = "idle"
    /\ call' = "execute_in_background"
    /\ output' = None
    /\ dep_execute
    /\ UNCHANGED << config_vars, dep_vars, timeout, units, results_registry,
                    total_tasks, executed_tasks, mpc, joined, core_only_vars >>

\* get_results: Closing, then wait for the loop
DepGetResults ==
    /\ mpc = "idle"
    /\ has_started
    /\ call # "get_results"
    /\ call' = "get_results"
    /\ output' = None
    /\ raised' = "none"
    /\ joined' = "none"
    /\ thread_state' = IF thread_state = STATE_RUNNING THEN STATE_CLOSING
                       ELSE thread_state
    /\ mpc' = "join"
    /\ UNCHANGED << config_vars, dep_vars, timeout, units, ustate, tasks,
                    started_tasks, results_registry, has_started, total_tasks,
                    executed_tasks, hpc, core_only_vars >>

\* the loop has finished draining: the snapshot
DepJoinFinished ==
    /\ mpc = "join"
    /\ hpc = "done"
    /\ joined' = "finished"
    /\ output' = Some(results_registry)
    /\ mpc' = "idle"
    /\ UNCHANGED << config_vars, dep_vars, timeout, units, ustate, tasks,
                    started_tasks, results_registry, has_started, total_tasks,
                    executed_tasks, thread_state, hpc, call, raised,
                    core_only_vars >>

\* the timeout has passed: force Terminated, then the snapshot
DepJoinTimeout ==
    /\ mpc = "join"
    /\ hpc # "done"
    /\ timeout # None
    /\ joined' = "timeout"
    /\ dep_force(tasks, started_tasks, succeeded_tasks, failed_tasks)
    /\ output' = Some(results_registry')
    /\ mpc' = "idle"
    /\ UNCHANGED << config_vars, depends_on, timeout, units, has_started,
                    total_tasks, executed_tasks, hpc, call, raised,
                    core_only_vars >>

\* Reap, and the fast-fail termination; before it the loop's exit test
DepReap ==
    /\ hpc = "reap"
    /\ IF thread_state = STATE_TERMINATED \/ (tasks = << >> /\ started_tasks = << >>)
       THEN /\ hpc' = "done"
            /\ UNCHANGED << ustate, tasks, started_tasks, results_registry,
                            executed_tasks, thread_state, succeeded_tasks,
                            failed_tasks, terminated_tasks >>
       ELSE LET stopped == {k \in DOMAIN started_tasks :
                               exitcode(started_tasks[k]) # None}
                reaped == {started_tasks[k] : k \in stopped}
                fail == failed_tasks \cup
                            {units[i].label : i \in {j \in reaped : has_failed(j)}}
                succ == succeeded_tasks \cup
                            {units[i].label : i \in {j \in reaped : ~has_failed(j)}}
                left == SelectSeq(started_tasks, LAMBDA i : i \notin reaped)
            IN  /\ executed_tasks' = executed_tasks + Cardinality(reaped)
                /\ IF fast_fail /\ \E j \in reaped : has_failed(j)
                   THEN /\ dep_force(tasks, left, succ, fail)
                        /\ hpc' = "done"
                   ELSE /\ started_tasks' = left
                        /\ failed_tasks' = fail
                        /\ succeeded_tasks' = succ
                        /\ hpc' = "classify"
                        /\ UNCHANGED << ustate, tasks, results_registry,
                                        thread_state, terminated_tasks >>
    /\ UNCHANGED << config_vars, depends_on, timeout, units, has_started,
                    total_tasks, mpc, call, joined, output, raised,
                    core_only_vars >>

\* Classify newly skippable
DepClassify ==
    /\ hpc = "classify"
    /\ LET skipped == {l \in LabelsOf(tasks) : is_skippable(l)}
       IN  /\ tasks' = SelectSeq(tasks, LAMBDA i : units[i].label \notin skipped)
           /\ terminated_tasks' = terminated_tasks \cup skipped
           /\ results_registry' = force_finalize(results_registry, skipped)
    /\ hpc' = "admit"
    /\ UNCHANGED << config_vars, depends_on, succeeded_tasks, failed_tasks,
                    timeout, units, ustate, started_tasks, has_started,
                    total_tasks, executed_tasks, thread_state, mpc, call,
                    joined, output, raised, core_only_vars >>

\* Admit, then the sleep
DepAdmit ==
    /\ hpc = "admit"
    /\ dep_admit
    /\ hpc' = "reap"
    /\ UNCHANGED << config_vars, dep_vars, timeout, units, results_registry,
                    has_started, total_tasks, executed_tasks, thread_state,
                    mpc, call, joined, output, raised, core_only_vars >>

NextDep ==
    \/ DepAddTask
    \/ DepExecuteInBackground
    \/ DepGetResults
    \/ DepJoinFinished
    \/ DepJoinTimeout
    \/ DepReap
    \/ DepClassify
    \/ DepAdmit
    \/ UnitRecords
    \/ UnitExits

SpecDep == Init /\ [][NextDep]_vars

\* registration with explicit and omitted labels and any depends_on set
DependsRegArgs == SUBSET (0 .. MaxLabel)

DepRegAddTask ==
    /\ mpc = "idle"
    /\ Len(units) < MaxRegTasks
    /\ call' = "add_task"
    /\ output' = None
    /\ \E callable \in BOOLEAN, label_arg \in LabelArgs,
          deps \in DependsRegArgs, work \in DepWorkItems :
          dep_add_task(callable, label_arg, deps, work)
    /\ UNCHANGED << config_vars, timeout, started_tasks, has_started,
                    executed_tasks, thread_state, hpc, mpc, joined,
                    succeeded_tasks, failed_tasks, terminated_tasks,
                    core_only_vars >>

NextDepReg ==
    \/ DepRegAddTask
    \/ DepExecuteInBackground

SpecDepReg == Init /\ [][NextDepReg]_vars

\* ------------------------------------------------------------ properties
Filled(r) == DOMAIN r # {}
Running == {i \in DOMAIN units : is_running(i)}
ReturnedResults == output # None /\ call \in {"get_background_results", "run"}

\* the record the unit of label l writes itself
OwnRecord(l) == TaskExecutor_run(units[UnitOf(l)].work)

TerminatedRecord(r) ==
    Filled(r) /\ r.status = Some("Terminated") /\ r.has_failed

\* C1: the units started and not yet reaped (started_tasks), and the units
\* whose thread or process is alive, never number more than max_concurrency.
C1_ConcurrencyCap ==
    /\ Len(started_tasks) <= max_concurrency
    /\ Cardinality(Running) <= max_concurrency

\* C1 witness: with a cap of 1 and two tasks, the second unit runs after the
\* first has stopped.
C1_Witness ==
    /\ max_concurrency = 1
    /\ tasks = << >>
    /\ Len(units) = 2
    /\ ustate[1] = "stopped"
    /\ ustate[2] = "running"

\* C2: with fast_fail off, no timeout and no abort, the maintenance loop has
\* not stopped while a label is pending or in flight, and when it has stopped
\* every registered label has been started and has a terminal record.
C2_LoopRunsAllTasks ==
    (/\ ~fast_fail
     /\ forced_by = "none"
     /\ call \in {"get_background_results", "run"}
     /\ hpc = "done")
    => /\ tasks = << >>
       /\ started_tasks = << >>
       /\ \A i \in DOMAIN units :
             /\ ustate[i] # "created"
             /\ Filled(results_registry[units[i].label])

\* C3: with fast_fail on, every label that had not finished when the reap
\* step observed the first failure is Terminated or Failed in the snapshot
\* that run / get_background_results returns (stated for the runs whose join
\* did not time out).
C3_FastFailTerminatesRest ==
    (/\ fast_fail
     /\ forced_by = "fast_fail"
     /\ joined = "finished"
     /\ ReturnedResults)
    => \A l \in forced_unfinished :
          /\ Filled(output[1][l])
          /\ output[1][l].status \in {Some("Terminated"), Some("Failed")}

C6_TimeoutFinalizes ==
    (/\ joined = "timeout"
     /\ forced_by = "timeout"
     /\ ReturnedResults)
    => \A l \in DOMAIN output[1] :
          IF l \in forced_unfinished
          THEN TerminatedRecord(output[1][l]) \/ output[1][l] = OwnRecord(l)
          ELSE output[1][l] = OwnRecord(l)

\* C7: when abort(), called on a started run with unfinished labels, has
\* returned, the scheduler state is Terminated and abort has returned a
\* snapshot in which every label that had not finished is Terminated with
\* has_failed (or holds the record its unit wrote in the meantime).
C7_AbortTerminates ==
    (/\ call = "abort"
     /\ mpc = "idle"
     /\ has_started
     /\ forced_by = "abort"
     /\ forced_unfinished # {})
    => /\ thread_state = STATE_TERMINATED
       /\ output # None
       /\ \A l \in forced_unfinished :
             TerminatedRecord(output[1][l]) \/ output[1][l] = OwnRecord(l)

AllReturn == \A i \in DOMAIN units : units[i].work.outcome = "return"
RunReturned == call = "run" /\ mpc = "idle" /\ raised # "RuntimeError"

\* the snapshot run() returned maps every label to a Successful record with
\* the value its work item returned
AllSuccessful ==
    /\ raised = "none"
    /\ output # None
    /\ DOMAIN output[1] = Labels
    /\ \A i \in DOMAIN units :
          LET r == output[1][units[i].label]
          IN  /\ Filled(r)
              /\ r.status = Some("Successful")
              /\ ~r.has_failed
              /\ r.result = Some(units[i].work.value)

\* C8: if every work item returns and the join does not time out, a run()
\* in progress returns, and what it returns maps every registered label to a
\* Successful record holding the value its work item returned.
C8_RunAllSuccessful ==
    /\ [](RunReturned /\ AllReturn /\ joined = "finished" => AllSuccessful)
    /\ (mpc = "run" /\ AllReturn /\ timeout = None) ~> RunReturned

\* C8 witness: run() has returned for MaxTasks tasks run one at a time.
C8_Witness ==
    /\ RunReturned /\ AllReturn /\ joined = "finished"
    /\ AllSuccessful
    /\ Len(units) = MaxTasks
    /\ max_concurrency = 1

\* C9: a record written by a unit itself is Failed with has_failed and an
\* error "<ErrorKind>: <text>" whenever the work item raised, and is
\* Successful with has_failed false only when the work item returned.
C9_FailureRecorded ==
    \A i \in DOMAIN units :
       LET r == results_registry[units[i].label]
           w == units[i].work
       IN  (Filled(r) /\ r.status # Some("Terminated")) =>
              IF w.outcome = "return"
              THEN r.status = Some("Successful") /\ ~r.has_failed
              ELSE /\ r.status = Some("Failed")
                   /\ r.has_failed
                   /\ r.error = Some(<< w.kind, ": ", w.text >>)

\* C10: the snapshot run / get_background_results returns holds every
\* registered label with a populated record that is Successful, Failed or
\* Terminated (stated for the runs whose join did not time out).
C10_SnapshotComplete ==
    (ReturnedResults /\ joined = "finished")
    => /\ DOMAIN output[1] = Labels
       /\ \A l \in Labels :
             /\ Filled(output[1][l])
             /\ output[1][l].status \in
                   {Some("Successful"), Some("Failed"), Some("Terminated")}

\* the dependency graph has no cycle
Acyclic ==
    \A l \in DOMAIN depends_on : l \notin reachable(depends_on, depends_on[l])

C12_AddTaskRejects ==
    [][\A callable \in BOOLEAN, label_arg \in LabelArgs, work \in WorkItems :
          add_task(callable, label_arg, work)
          => /\ (~callable \/ (label_arg # None /\ label_arg[1] \in Labels))
                   => raised' # "none"
             /\ raised' # "none"
                   => UNCHANGED << units, tasks, results_registry,
                                   total_tasks >>]_vars

\* C14: before the start, an add_task of a callable without a label argument
\* is accepted and registers the task under the number of tasks registered
\* before it.
C14_DefaultLabelIsIndex ==
    [][\A work \in WorkItems :
          (~has_started /\ add_task(TRUE, None, work))
          => /\ raised' = "none"
             /\ Len(units') = Len(units) + 1
             /\ units'[Len(units')].label = Len(units)
             /\ DOMAIN results_registry' = DOMAIN results_registry \cup {Len(units)}
             /\ results_registry'[Len(units)] = EmptyRecord]_vars

\* C13: once the run has started, a call of execute_in_background, run or
\* add_task raises RuntimeError, starts no unit, spawns no maintenance thread
\* and leaves the pending queue, the started tasks and the registry unchanged.
C13_SingleUse ==
    [][(has_started /\ (ExecuteInBackground \/ Run \/ AddTask))
       => /\ raised' = "RuntimeError"
          /\ mpc' = "idle"
          /\ UNCHANGED << units, ustate, tasks, started_tasks, results_registry,
                          total_tasks, executed_tasks, has_started,
                          task_handler, thread_state, hpc >>]_vars

\* C13 witness: run() was called on a started runner with a unit running and
\* a task pending, and has raised.
C13_Witness ==
    /\ has_started
    /\ calls = 1
    /\ call = "run"
    /\ raised = "RuntimeError"
    /\ mpc = "idle"
    /\ tasks # << >>
    /\ \E i \in DOMAIN units : ustate[i] = "running"

\* C15: a snapshot returned by run / get_background_results after an earlier
\* results call has returned one equals that first snapshot.
C15_SnapshotIdempotent ==
    (ReturnedResults /\ first_snapshot # None) => output = first_snapshot

\* C16: verify raises when the maintenance thread is in state RUNNING;
\* otherwise it raises (one Exception) exactly when raise_exception is true
\* and some record has has_failed, and returns without raising when no record
\* has has_failed.
C16_VerifyOutcome ==
    [][\A raise_exception \in BOOLEAN :
          Verify(raise_exception)
          => IF task_handler /\ thread_state = STATE_RUNNING
             THEN raised' = "Exception"
             ELSE IF \E l \in DOMAIN results_registry :
                        /\ Filled(results_registry[l])
                        /\ results_registry[l].has_failed
             THEN raised' = IF raise_exception THEN "Exception" ELSE "none"
             ELSE raised' = "none"]_vars

\* C17: in thread mode a record that is Terminated stays as it is in every
\* later state.
C17_TerminatedIsFinal ==
    [][~use_multiprocessing
       => \A l \in DOMAIN results_registry :
             TerminatedRecord(results_registry[l])
             => results_registry'[l] = results_registry[l]]_vars

\* C18: a record its own unit has written (Successful or Failed) is never
\* replaced by a Terminated record.
C18_NoOverwriteByTerminated ==
    [][\A i \in DOMAIN units :
          LET l == units[i].label
          IN  (/\ results_registry[l] = OwnRecord(l)
               /\ ustate[i] \in {"recorded", "stopped"})
              => ~TerminatedRecord(results_registry'[l])]_vars

\* _terminate_tasks has set the state TERMINATED at some time: line 502 is the
\* only assignment of the 0.1 s timeout and line 503 follows it
ForcedTerminated == task_handler /\ timeout = Some(TerminateTimeout)

\* C19: once the state has been forced to TERMINATED no unit is started.
C19_NoStartAfterTerminated ==
    [][ForcedTerminated
       => \A i \in DOMAIN units :
             ustate[i] = "created" => ustate'[i] = "created"]_vars

\* a unit is started in this step
StartsUnit == \E i \in DOMAIN units : ustate[i] = "created" /\ ustate'[i] # "created"

AllFinished ==
    /\ has_started
    /\ Labels # {}
    /\ tasks = << >>
    /\ started_tasks = << >>
    /\ \A i \in DOMAIN units :
          ustate[i] = "stopped" /\ Filled(results_registry[units[i].label])

\* C21: once every registered label has finished, the maintenance loop
\* eventually stops by itself, also in a background run for which no results
\* were requested.
C21_LoopStopsByItself == AllFinished ~> (hpc = "done")

\* The scheduler's five sets as core.py holds them: the pending queue, the
\* started tasks, and the labels that left both with the status of their record
\* (Terminated is what _terminate_tasks and the post loop write).
pending_labels == LabelsOf(tasks)
in_flight_labels == LabelsOf(started_tasks)
terminated_labels ==
    {l \in Labels : TerminatedRecord(results_registry[l])}
failed_labels ==
    {l \in Labels \ (pending_labels \cup in_flight_labels) :
        /\ Filled(results_registry[l])
        /\ results_registry[l].status = Some("Failed")}
succeeded_labels ==
    {l \in Labels \ (pending_labels \cup in_flight_labels) :
        /\ Filled(results_registry[l])
        /\ results_registry[l].status = Some("Successful")}

\* the number of the five sets that hold the label
SetsHolding(l) ==
    Cardinality({k \in 1 .. 5 :
        l \in << pending_labels, in_flight_labels, failed_labels,
                 terminated_labels, succeeded_labels >>[k]})

\* C22: after the start every registered label is in exactly one of pending,
\* in-flight, failed, terminated, succeeded.
C22_Partition ==
    has_started => \A l \in Labels : SetsHolding(l) = 1

\* C23: admission is FIFO. A unit has been started only if every unit
\* registered before it has been started, and the pending queue holds the
\* units not yet started in registration order.
C23_FifoAdmission ==
    /\ \A i, j \in DOMAIN units :
          (j < i /\ ustate[i] # "created") => ustate[j] # "created"
    /\ \A k \in DOMAIN tasks :
          /\ ustate[tasks[k]] = "created"
          /\ \A m \in DOMAIN tasks : k < m => tasks[k] < tasks[m]

\* C23 witness: with a cap of 1 the first of two registered units has been
\* started while the second one is still pending.
C23_Witness ==
    /\ has_started
    /\ max_concurrency = 1
    /\ Len(units) = 2
    /\ started_tasks = << 1 >>
    /\ tasks = << 2 >>
    /\ ustate[1] = "running"

\* the unit is in started_tasks
InFlight(i) == \E k \in DOMAIN started_tasks : started_tasks[k] = i

\* the stopped units this step takes out of started_tasks
StoppedGone ==
    {i \in DOMAIN units :
        InFlight(i) /\ ustate[i] = "stopped" /\ ~(InFlight(i))'}

\* C24 as stated: every in-flight unit that has stopped is eventually taken
\* out of the started tasks, and the step that takes it out counts it as
\* executed once.
C24_StoppedUnitReaped ==
    /\ \A i \in 1 .. MaxTasks :
          [](i \in DOMAIN units /\ InFlight(i) /\ ustate[i] = "stopped"
                => <>(~InFlight(i)))
    /\ [][executed_tasks' = executed_tasks + Cardinality(StoppedGone)]_vars

\* C24 as the code behaves: in a background run every in-flight unit that
\* has stopped is eventually taken out of the started tasks, also when a
\* failed unit ended the reap pass before it, and the started tasks end up
\* empty. The step that takes it out counts it as executed once unless the
\* state is TERMINATED (fast fail): then the post loop drops it uncounted.
C24_ReapedUnlessTerminated ==
    /\ \A i \in 1 .. MaxTasks :
          [](i \in DOMAIN units /\ InFlight(i) /\ ustate[i] = "stopped"
                => <>(~InFlight(i)))
    /\ <>[](has_started => started_tasks = << >>)
    /\ [][executed_tasks' = executed_tasks
             + (IF thread_state = STATE_TERMINATED THEN 0
                ELSE Cardinality(StoppedGone))]_vars

\* C24 witness: without fast fail two units were started together, the
\* second one failed and was reaped, and the first one has stopped and is
\* still in the started tasks.
C24_Witness ==
    /\ ~fast_fail
    /\ Len(units) = 2
    /\ started_tasks = << 1 >>
    /\ ustate = << "stopped", "stopped" >>
    /\ executed_tasks = 1
    /\ results_registry[1].status = Some("Failed")
    /\ hpc = "loop"

\* C25: every non-empty record is consistent: has_failed is false exactly
\* when the status is Successful, true exactly when the status is Failed or
\* Terminated, and a Terminated record has no result.
C25_RecordConsistent ==
    \A l \in DOMAIN results_registry :
       LET r == results_registry[l]
       IN  Filled(r) =>
              /\ r.status \in {Some("Successful"), Some("Failed"),
                               Some("Terminated")}
              /\ ~r.has_failed <=> r.status = Some("Successful")
              /\ r.has_failed <=> r.status \in {Some("Failed"), Some("Terminated")}
              /\ r.status = Some("Terminated") => r.result = None

\* C25 witness: one label has a Terminated record and another one the Failed
\* record its unit wrote.
C25_Witness ==
    \E l, m \in DOMAIN results_registry :
       /\ TerminatedRecord(results_registry[l])
       /\ Filled(results_registry[m])
       /\ results_registry[m].status = Some("Failed")
       /\ results_registry[m].has_failed

\* C26: a unit is started at most once. A step puts a unit into the started
\* tasks only if it was never started, and start() does not raise for it; a
\* unit that has been started never becomes unstarted, and once it has
\* recorded or stopped it never runs again; no unit is twice in the pending
\* queue and the started tasks, and a pending unit has not been started.
C26_StartedAtMostOnce ==
    /\ [][\A i \in DOMAIN units :
             (~InFlight(i) /\ (InFlight(i))')
             => /\ ustate[i] = "created"
                /\ start_error(i) = "none"
                /\ ustate'[i] = "running"]_vars
    /\ [][\A i \in DOMAIN units :
             /\ ustate[i] # "created" => ustate'[i] # "created"
             /\ ustate[i] \in {"recorded", "stopped"} => ustate'[i] # "running"
             /\ (ustate[i] = "created" /\ ustate'[i] # "created")
                   => (InFlight(i))']_vars
    /\ [](\A i \in DOMAIN units :
             /\ Cardinality({k \in DOMAIN (tasks \o started_tasks) :
                                (tasks \o started_tasks)[k] = i}) <= 1
             /\ (\E k \in DOMAIN tasks : tasks[k] = i) => ustate[i] = "created")

\* C26 witness: with a cap of 1 two units were admitted one after the other
\* and reaped, and get_background_results has returned.
C26_Witness ==
    /\ max_concurrency = 1
    /\ Len(units) = 2
    /\ ustate = << "stopped", "stopped" >>
    /\ executed_tasks = 2
    /\ call = "get_background_results"
    /\ mpc = "idle"
    /\ hpc = "done"
    /\ output # None

\* C27: the cap is at least 1 for every max_concurrency argument, and an
\* argument below 1 (zero or negative) gives a cap of exactly 1.
C27_CapClampedToOne ==
    /\ max_concurrency >= 1
    /\ (max_concurrency_arg # None /\ max_concurrency_arg[1] < 1)
          => max_concurrency = 1

\* C28: the exit status of a unit is absent before the unit is started and
\* while it is live, is 0 once the unit has been started and has stopped
\* running, is 0 in no other state, and never changes back from 0 to absent.
C28_ExitStatus ==
    /\ [](\A i \in DOMAIN units :
             /\ (ustate[i] = "created" \/ is_running(i)) => exitcode(i) = None
             /\ ustate[i] = "stopped" => exitcode(i) = Some(0)
             /\ exitcode(i) = Some(0) => ustate[i] = "stopped")
    /\ [][\A i \in DOMAIN units :
             exitcode(i) = Some(0) => (exitcode(i))' = Some(0)]_vars

====
